---- MODULE Spec2Model ----
(***************************************************************************)
(* State-machine model of SAGradingCLI (src/src/main.rs): the event source *)
(* thread, the mpsc channel, the controller loop of main, and the JSON     *)
(* record store behind read_db / add_random_group_to_db /                  *)
(* remove_group_at_index.                                                  *)
(*                                                                         *)
(* usize values: a usize v is represented by the integer congruent to v    *)
(* modulo 2^64 that lies nearest to zero, so 0 - 1 (usize::MAX in a build  *)
(* without overflow checks) is written -1, usize::MAX - 1 is written -2.   *)
(* ULt / UGe compare two representatives as the unsigned values they       *)
(* stand for.  The build decides what an overflowing subtraction does:     *)
(* "debug" panics (overflow checks on), "release" wraps.                   *)
(***************************************************************************)
EXTENDS Integers, Sequences, FiniteSets, TLC

VARIABLES
    file,               \* contents of DB_PATH: [status, groups]
    active_menu_item,   \* "Home" | "Groups" | "Editing"
    group_list_state,   \* ListState.selected(): << >> is None, <<i>> is Some(i)
    raw_mode,           \* TRUE between enable_raw_mode and disable_raw_mode
    ctl,                \* position of main: init, start, draw, recv, done, err, panicked
    screen,             \* view put on the terminal by the last completed draw
    last,               \* the event most recently matched by the controller
    chan,               \* the mpsc channel: events sent, not yet received or dropped
    pushed,             \* number of events sent so far
    rcvd,               \* number of events received so far
    prod,               \* event source thread: unspawned, poll, check, dead, gone
    due,                \* last_tick.elapsed() >= tick_rate
    build               \* "debug" (overflow checks) | "release" (wrapping)

vars == <<file, active_menu_item, group_list_state, raw_mode, ctl, screen, last,
          chan, pushed, rcvd, prod, due, build>>

----------------------------------------------------------------------------
\* Bounds of the model.

\* Total number of events the event source sends in one session.
MaxEvents == 3
\* Largest number of records in the store file when the session starts.
MaxInitLen == 2
\* Largest number of events waiting in the channel.
MaxChan == 2
\* Largest value the model lets rng.gen_range return.
MaxDraw == 0

\* rng.gen_range(0, 10): the exclusive upper end of both draws.
RngHigh == 10

----------------------------------------------------------------------------
\* Data.

MenuItem == {"Home", "Groups", "Editing"}

\* KeyCode values the controller distinguishes; "other" is any other key.
KeyCodes == {"q", "h", "g", "a", "e", "d", "Down", "Up", "other"}

\* Values of rng.gen_range(0, RngHigh): 0 .. RngHigh - 1, cut off at MaxDraw.
Draws == 0 .. (IF MaxDraw < RngHigh - 1 THEN MaxDraw ELSE RngHigh - 1)

\* struct Group, with the name "Group <n>" kept as the pair <<"Group ", n>>.
Group(n, asg) ==
    [name |-> <<"Group ", n>>,
     assignment |-> asg,
     feedback |-> <<"feedback">>,
     footnote |-> "This assignment was graded by: Tom Koning. E-mail: tom.koning@ru.nl."]

\* The records the generator of add_random_group_to_db can produce: name and
\* assignment are drawn independently.
RandomGroups == {Group(n, asg) : n \in Draws, asg \in Draws}

\* The store file of n records a session may start from: pairwise distinct
\* records, none of which the generator can produce.
InitGroups(n) == [i \in 1 .. n |-> Group(RngHigh + i, i)]

\* A store file: readable with a parsed record sequence, missing/unreadable,
\* or readable but not a JSON array of Group.
OkFile(groups) == [status |-> "ok", groups |-> groups]
UnreadableFile == [status |-> "unreadable", groups |-> << >>]
UnparsableFile == [status |-> "unparsable", groups |-> << >>]

----------------------------------------------------------------------------
\* usize arithmetic on representatives.

ULt(a, b) == IF (a >= 0) = (b >= 0) THEN a < b ELSE b < 0
UGe(a, b) == ~ULt(a, b)

\* a - 1 on usize: overflows exactly when a = 0.
USub1(a, bld) ==
    [panic |-> (a = 0 /\ bld = "debug"), val |-> a - 1]

\* a + 1 on usize: overflows exactly when a = usize::MAX.
UAdd1(a, bld) ==
    [panic |-> (a = -1 /\ bld = "debug"), val |-> a + 1]

\* Variant of Vec::remove that takes i as a 1-based position.
RemoveOneBased(s, i) ==
    [k \in 1 .. (Len(s) - 1) |-> IF k < i THEN s[k] ELSE s[k + 1]]

\* Vec::remove(i): the sequence without its element at 0-based index i.
RemoveAt(s, i) ==
    [k \in 1 .. (Len(s) - 1) |-> IF k <= i THEN s[k] ELSE s[k + 1]]

----------------------------------------------------------------------------
\* The record store.

\* read_db: Err(ReadDBError) on an unreadable file, Err(ParseDBError) on
\* contents that are not a Vec<Group>, else Ok(parsed).
read_db(f) ==
    IF f.status = "ok" THEN [outcome |-> "ok", parsed |-> f.groups]
    ELSE [outcome |-> "err", parsed |-> << >>]

\* What fs::write(DB_PATH, ..) can do: replace the contents; fail before
\* touching the file (permission denied); or truncate the file and then fail
\* (file size limit, full disk), which leaves contents that do not parse.
WriteOutcomes == {"ok", "denied", "truncated"}

\* fs::write(DB_PATH, &serde_json::to_vec(&groups)?), with outcome w.
fs_write(f, groups, w) ==
    IF w = "ok" THEN [outcome |-> "ok", file |-> OkFile(groups)]
    ELSE IF w = "denied" THEN [outcome |-> "err", file |-> f]
    ELSE [outcome |-> "err", file |-> UnparsableFile]

\* Variant of add_random_group_to_db that inserts the new record at the front.
AddAtFront(f, g, w) ==
    IF f.status # "ok" THEN [outcome |-> "err", file |-> f]
    ELSE fs_write(f, <<g>> \o f.groups, w)

\* add_random_group_to_db with the drawn record g and write outcome w: read,
\* parse, push, write; every failure is returned through `?`.
add_random_group_to_db(f, g, w) ==
    IF f.status # "ok" THEN [outcome |-> "err", file |-> f]
    ELSE fs_write(f, Append(f.groups, g), w)

\* Variant of remove_group_at_index without the singleton floor.
RemoveNoFloor(state, f, w) ==
    IF state = << >> THEN [outcome |-> "ok", file |-> f, state |-> state]
    ELSE LET selected == state[1]
         IN  IF f.status # "ok" THEN [outcome |-> "err", file |-> f, state |-> state]
             ELSE IF UGe(selected, Len(f.groups))
                  THEN [outcome |-> "panic", file |-> f, state |-> state]
                  ELSE LET wr == fs_write(f, RemoveAt(f.groups, selected), w)
                       IN  IF wr.outcome # "ok"
                           THEN [outcome |-> "err", file |-> wr.file, state |-> state]
                           ELSE [outcome |-> "ok", file |-> wr.file,
                                 state |-> IF selected # 0 THEN <<selected - 1>> ELSE state]

\* Variant of remove_group_at_index whose floor test reads parsed.len() != 0.
RemoveFloorZero(state, f, w) ==
    IF state = << >> THEN [outcome |-> "ok", file |-> f, state |-> state]
    ELSE LET selected == state[1]
         IN  IF f.status # "ok" THEN [outcome |-> "err", file |-> f, state |-> state]
             ELSE IF Len(f.groups) # 0
                  THEN IF UGe(selected, Len(f.groups))
                       THEN [outcome |-> "panic", file |-> f, state |-> state]
                       ELSE LET wr == fs_write(f, RemoveAt(f.groups, selected), w)
                            IN  IF wr.outcome # "ok"
                                THEN [outcome |-> "err", file |-> wr.file, state |-> state]
                                ELSE [outcome |-> "ok", file |-> wr.file,
                                      state |-> IF selected # 0 THEN <<selected - 1>> ELSE state]
                  ELSE [outcome |-> "ok", file |-> f, state |-> state]

\* Variant of remove_group_at_index that leaves the selection where it was.
RemoveKeepsSelection(state, f, w) ==
    IF state = << >> THEN [outcome |-> "ok", file |-> f, state |-> state]
    ELSE LET selected == state[1]
         IN  IF f.status # "ok" THEN [outcome |-> "err", file |-> f, state |-> state]
             ELSE IF Len(f.groups) # 1
                  THEN IF UGe(selected, Len(f.groups))
                       THEN [outcome |-> "panic", file |-> f, state |-> state]
                       ELSE LET wr == fs_write(f, RemoveAt(f.groups, selected), w)
                            IN  IF wr.outcome # "ok"
                                THEN [outcome |-> "err", file |-> wr.file, state |-> state]
                                ELSE [outcome |-> "ok", file |-> wr.file,
                                      state |-> state]
                  ELSE [outcome |-> "ok", file |-> f, state |-> state]

\* remove_group_at_index with write outcome w: nothing without a selection;
\* read and parse; unless exactly one record is stored, remove at the selected
\* index (Vec::remove panics when the index is not below the length), write
\* (a failed write returns through `?` before the selection is touched), and
\* step the selection back by one unless it was 0.
remove_group_at_index(state, f, w) ==
    IF state = << >> THEN [outcome |-> "ok", file |-> f, state |-> state]
    ELSE LET selected == state[1]
         IN  IF f.status # "ok" THEN [outcome |-> "err", file |-> f, state |-> state]
             ELSE IF Len(f.groups) # 1
                  THEN IF UGe(selected, Len(f.groups))
                       THEN [outcome |-> "panic", file |-> f, state |-> state]
                       ELSE LET wr == fs_write(f, RemoveAt(f.groups, selected), w)
                            IN  IF wr.outcome # "ok"
                                THEN [outcome |-> "err", file |-> wr.file, state |-> state]
                                ELSE [outcome |-> "ok", file |-> wr.file,
                                      state |-> IF selected # 0 THEN <<selected - 1>> ELSE state]
                  ELSE [outcome |-> "ok", file |-> f, state |-> state]

\* Variant of the Down arm that wraps only past the last index
\* (selected > amount_groups - 1).
DownArmWrapsLate(state, f, bld) ==
    IF state = << >> THEN [outcome |-> "ok", state |-> state]
    ELSE LET selected == state[1]
             db == read_db(f)
             lastIndex == USub1(Len(db.parsed), bld)
             next == UAdd1(selected, bld)
         IN  IF db.outcome # "ok" \/ lastIndex.panic
             THEN [outcome |-> "panic", state |-> state]
             ELSE IF ULt(lastIndex.val, selected)
                  THEN [outcome |-> "ok", state |-> <<0>>]
                  ELSE IF next.panic
                       THEN [outcome |-> "panic", state |-> state]
                       ELSE [outcome |-> "ok", state |-> <<next.val>>]

\* The KeyCode::Down arm of main.
DownArm(state, f, bld) ==
    IF state = << >> THEN [outcome |-> "ok", state |-> state]
    ELSE LET selected == state[1]
             db == read_db(f)
             lastIndex == USub1(Len(db.parsed), bld)
             next == UAdd1(selected, bld)
         IN  IF db.outcome # "ok" \/ lastIndex.panic
             THEN [outcome |-> "panic", state |-> state]
             ELSE IF UGe(selected, lastIndex.val)
                  THEN [outcome |-> "ok", state |-> <<0>>]
                  ELSE IF next.panic
                       THEN [outcome |-> "panic", state |-> state]
                       ELSE [outcome |-> "ok", state |-> <<next.val>>]

\* The KeyCode::Up arm of main.
UpArm(state, f, bld) ==
    IF state = << >> THEN [outcome |-> "ok", state |-> state]
    ELSE LET selected == state[1]
             db == read_db(f)
             lastIndex == USub1(Len(db.parsed), bld)
         IN  IF db.outcome # "ok"
             THEN [outcome |-> "panic", state |-> state]
             ELSE IF selected # 0
                  THEN [outcome |-> "ok", state |-> <<selected - 1>>]
                  ELSE IF lastIndex.panic
                       THEN [outcome |-> "panic", state |-> state]
                       ELSE [outcome |-> "ok", state |-> <<lastIndex.val>>]

\* render_groups: the three expects; "ok" when the view can be built.
render_groups(state, f) ==
    LET db == read_db(f)
    IN  IF db.outcome # "ok" THEN "panic"            \* "can fetch group list"
        ELSE IF state = << >> THEN "panic"           \* "there is always a selected group"
        ELSE IF UGe(state[1], Len(db.parsed)) THEN "panic"   \* "exists"
        ELSE "ok"

----------------------------------------------------------------------------
\* The channel.

\* Variant of tx.send that puts the event at the front of the queue.
ChanSendFront(c, ev, n) == <<[ev |-> ev, n |-> n]>> \o c

\* tx.send: the event joins the back of the queue, tagged with its serial.
ChanSend(c, ev, n) == Append(c, [ev |-> ev, n |-> n])

\* rx.recv on a non-empty queue: the front event and the rest.
ChanRecv(c) == [msg |-> Head(c), rest |-> Tail(c)]

----------------------------------------------------------------------------
\* Initial state: main is entered; raw mode is not yet enabled, the channel is
\* empty and the event source thread is not yet spawned.

Terminated == {"done", "err", "panicked"}

InitFiles ==
    {OkFile(InitGroups(n)) : n \in 0 .. MaxInitLen} \cup {UnreadableFile, UnparsableFile}

Init ==
    /\ file \in InitFiles
    /\ build \in {"debug", "release"}
    /\ active_menu_item = "Home"
    /\ group_list_state = <<0>>
    /\ raw_mode = FALSE
    /\ ctl = "init"
    /\ screen = "none"
    /\ last = "none"
    /\ chan = << >>
    /\ pushed = 0
    /\ rcvd = 0
    /\ prod = "unspawned"
    /\ due = FALSE

----------------------------------------------------------------------------
\* The event source thread (main.rs 94-113).  It runs from its spawn until the
\* process exits, so it can outlive the controller; rx is dropped when main
\* ends, which discards the events still queued, and from then on every send
\* fails.

\* main has not ended: the receiver exists.
Running == ctl \notin Terminated

CanSend == pushed < MaxEvents /\ Len(chan) < MaxChan

prodFrame == UNCHANGED <<file, active_menu_item, group_list_state, raw_mode, ctl,
                         screen, last, rcvd, build>>

\* The tick interval runs out, wherever the thread is: before the poll (the
\* timeout computed is then zero), or between the return of poll and the
\* deadline check, while the event is read and sent.
DeadlinePasses ==
    /\ prod \in {"poll", "check"} /\ ~due
    /\ due' = TRUE
    /\ UNCHANGED <<chan, pushed, prod>>
    /\ prodFrame

\* Variant of the key branch that goes straight back to poll after sending,
\* without the deadline check.
PollKeySkipsCheck ==
    /\ prod = "poll"
    /\ IF Running
       THEN /\ CanSend
            /\ \E k \in KeyCodes : chan' = ChanSend(chan, k, pushed + 1)
            /\ pushed' = pushed + 1
            /\ due' = due
            /\ prod' = "poll"
       ELSE /\ prod' = "dead"
            /\ UNCHANGED <<chan, pushed, due>>
    /\ prodFrame

\* Variant of the key branch in which the thread itself acts on the key and
\* puts the selection back on the first row.
PollKeyActs ==
    /\ prod = "poll"
    /\ IF Running
       THEN /\ CanSend
            /\ \E k \in KeyCodes : chan' = ChanSend(chan, k, pushed + 1)
            /\ pushed' = pushed + 1
            /\ due' = due
            /\ prod' = "check"
       ELSE /\ prod' = "dead"
            /\ UNCHANGED <<chan, pushed, due>>
    /\ group_list_state' = <<0>>
    /\ UNCHANGED <<file, active_menu_item, raw_mode, ctl, screen, last, rcvd, build>>

\* poll returns true and read yields a key event: send Input(key).  With the
\* receiver gone the send fails and its expect panics the thread.
PollKey ==
    /\ prod = "poll"
    /\ IF Running
       THEN /\ CanSend
            /\ \E k \in KeyCodes : chan' = ChanSend(chan, k, pushed + 1)
            /\ pushed' = pushed + 1
            /\ due' = due
            /\ prod' = "check"
       ELSE /\ prod' = "dead"
            /\ UNCHANGED <<chan, pushed, due>>
    /\ prodFrame

\* poll returns true and read yields an event that is not a key: nothing is sent.
PollNonKey ==
    /\ prod = "poll"
    /\ prod' = "check"
    /\ UNCHANGED <<chan, pushed, due>>
    /\ prodFrame

\* poll returns false: the remaining tick budget has elapsed.
PollTimeout ==
    /\ prod = "poll"
    /\ due' = TRUE
    /\ prod' = "check"
    /\ UNCHANGED <<chan, pushed>>
    /\ prodFrame

\* poll or read fails: the expect panics the thread and drops tx.
PollFail ==
    /\ prod = "poll"
    /\ prod' = "dead"
    /\ UNCHANGED <<chan, pushed, due>>
    /\ prodFrame

\* last_tick.elapsed() >= tick_rate: send Tick and, if the send succeeded,
\* restart the interval.  With the receiver gone the send fails and last_tick
\* stays as it is.
SendTick ==
    /\ prod = "check" /\ due
    /\ IF Running
       THEN /\ CanSend
            /\ chan' = ChanSend(chan, "Tick", pushed + 1)
            /\ pushed' = pushed + 1
            /\ due' = FALSE
       ELSE UNCHANGED <<chan, pushed, due>>
    /\ prod' = "poll"
    /\ prodFrame

\* The interval has not elapsed: back to poll.
NoTick ==
    /\ prod = "check" /\ ~due
    /\ prod' = "poll"
    /\ UNCHANGED <<chan, pushed, due>>
    /\ prodFrame

----------------------------------------------------------------------------
\* The controller (main.rs 89-238).

\* enable_raw_mode succeeds; the channel is created and the thread spawned.
EnableRawMode ==
    /\ ctl = "init"
    /\ raw_mode' = TRUE
    /\ ctl' = "start"
    /\ prod' = "poll"
    /\ UNCHANGED <<file, active_menu_item, group_list_state, screen, last,
                   chan, pushed, rcvd, due, build>>

\* enable_raw_mode fails: its expect panics main before anything else exists.
EnableRawModeFail ==
    /\ ctl = "init"
    /\ ctl' = "panicked"
    /\ UNCHANGED <<file, active_menu_item, group_list_state, raw_mode, screen, last,
                   chan, pushed, rcvd, prod, due, build>>

\* Terminal::new and terminal.clear succeed; the loop is entered.
Setup ==
    /\ ctl = "start"
    /\ ctl' = "draw"
    /\ UNCHANGED <<file, active_menu_item, group_list_state, raw_mode, screen, last,
                   chan, pushed, rcvd, prod, due, build>>

\* Terminal::new or terminal.clear fails: main returns the error.
SetupFail ==
    /\ ctl = "start"
    /\ ctl' = "err"
    /\ chan' = << >>
    /\ UNCHANGED <<file, active_menu_item, group_list_state, raw_mode, screen, last,
                   pushed, rcvd, prod, due, build>>

\* Variant of terminal.draw whose Groups view puts the selection on the
\* first row.
DrawSelectsFirst ==
    /\ ctl = "draw"
    /\ IF active_menu_item = "Groups" /\ render_groups(group_list_state, file) = "panic"
       THEN /\ ctl' = "panicked"
            /\ chan' = << >>
            /\ UNCHANGED <<screen, group_list_state>>
       ELSE /\ ctl' = "recv"
            /\ screen' = active_menu_item
            /\ group_list_state' =
                 IF active_menu_item = "Groups" THEN <<0>> ELSE group_list_state
            /\ UNCHANGED chan
    /\ UNCHANGED <<file, active_menu_item, raw_mode, last,
                   pushed, rcvd, prod, due, build>>

\* terminal.draw: Home and Editing draw the home paragraph, Groups calls
\* render_groups, whose expects panic the controller.
Draw ==
    /\ ctl = "draw"
    /\ IF active_menu_item = "Groups" /\ render_groups(group_list_state, file) = "panic"
       THEN /\ ctl' = "panicked"
            /\ chan' = << >>
            /\ UNCHANGED screen
       ELSE /\ ctl' = "recv"
            /\ screen' = active_menu_item
            /\ UNCHANGED chan
    /\ UNCHANGED <<file, active_menu_item, group_list_state, raw_mode, last,
                   pushed, rcvd, prod, due, build>>

\* terminal.draw returns an I/O error: main returns it.
DrawFail ==
    /\ ctl = "draw"
    /\ ctl' = "err"
    /\ chan' = << >>
    /\ UNCHANGED <<file, active_menu_item, group_list_state, raw_mode, screen, last,
                   pushed, rcvd, prod, due, build>>

\* rx.recv with every sender gone and the queue drained: main returns the error.
RecvErr ==
    /\ ctl = "recv" /\ chan = << >> /\ prod = "dead"
    /\ ctl' = "err"
    /\ UNCHANGED <<file, active_menu_item, group_list_state, raw_mode, screen, last,
                   chan, pushed, rcvd, prod, due, build>>

\* What is left in the channel once an arm has run: the events behind the
\* one received, or nothing when the arm ends main, which drops rx and with
\* it every event still queued.
RestOfChannel ==
    IF ctl' \in Terminated THEN << >> ELSE ChanRecv(chan).rest

\* rx.recv yields event ev: the part every arm shares.
Receive(ev) ==
    /\ ctl = "recv" /\ chan # << >>
    /\ ChanRecv(chan).msg.ev = ev
    /\ rcvd' = rcvd + 1
    /\ last' = ev
    /\ UNCHANGED <<pushed, prod, due, build, screen>>

\* Variant of the q arm without the break.
KeyQKeepsLooping ==
    /\ Receive("q")
    /\ raw_mode' = FALSE
    /\ ctl' = "draw"
    /\ chan' = RestOfChannel
    /\ UNCHANGED <<file, active_menu_item, group_list_state>>

\* What the three terminal calls of the q arm can do: all succeed;
\* disable_raw_mode fails; show_cursor or clear fails after raw mode is off.
QuitOutcomes == {"ok", "disable_fails", "restore_fails"}

\* The q arm: disable_raw_mode()?; show_cursor()?; clear()?; break.
KeyQ ==
    /\ Receive("q")
    /\ \E o \in QuitOutcomes :
         /\ raw_mode' = IF o = "disable_fails" THEN raw_mode ELSE FALSE
         /\ ctl' = IF o = "ok" THEN "done" ELSE "err"
         /\ chan' = RestOfChannel
    /\ UNCHANGED <<file, active_menu_item, group_list_state>>

KeyH ==
    /\ Receive("h")
    /\ active_menu_item' = "Home"
    /\ ctl' = "draw"
    /\ chan' = RestOfChannel
    /\ UNCHANGED <<file, group_list_state, raw_mode>>

KeyG ==
    /\ Receive("g")
    /\ active_menu_item' = "Groups"
    /\ ctl' = "draw"
    /\ chan' = RestOfChannel
    /\ UNCHANGED <<file, group_list_state, raw_mode>>

\* Variant of the e arm that selects the Home tab, whose view Editing shows.
KeyEShowsHome ==
    /\ Receive("e")
    /\ active_menu_item' = "Home"
    /\ ctl' = "draw"
    /\ chan' = RestOfChannel
    /\ UNCHANGED <<file, group_list_state, raw_mode>>

KeyE ==
    /\ Receive("e")
    /\ active_menu_item' = "Editing"
    /\ ctl' = "draw"
    /\ chan' = RestOfChannel
    /\ UNCHANGED <<file, group_list_state, raw_mode>>

\* add_random_group_to_db().expect(..)
KeyA ==
    /\ Receive("a")
    /\ \E g \in RandomGroups, w \in WriteOutcomes :
         LET r == add_random_group_to_db(file, g, w)
         IN  /\ file' = r.file
             /\ ctl' = IF r.outcome = "ok" THEN "draw" ELSE "panicked"
             /\ chan' = RestOfChannel
    /\ UNCHANGED <<active_menu_item, group_list_state, raw_mode>>

\* remove_group_at_index(&mut group_list_state).expect(..)
KeyD ==
    /\ Receive("d")
    /\ \E w \in WriteOutcomes :
         LET r == remove_group_at_index(group_list_state, file, w)
         IN  /\ file' = r.file
             /\ group_list_state' = r.state
             /\ ctl' = IF r.outcome = "ok" THEN "draw" ELSE "panicked"
             /\ chan' = RestOfChannel
    /\ UNCHANGED <<active_menu_item, raw_mode>>

KeyDown ==
    /\ Receive("Down")
    /\ LET r == DownArm(group_list_state, file, build)
       IN  /\ group_list_state' = r.state
           /\ ctl' = IF r.outcome = "ok" THEN "draw" ELSE "panicked"
           /\ chan' = RestOfChannel
    /\ UNCHANGED <<file, active_menu_item, raw_mode>>

KeyUp ==
    /\ Receive("Up")
    /\ LET r == UpArm(group_list_state, file, build)
       IN  /\ group_list_state' = r.state
           /\ ctl' = IF r.outcome = "ok" THEN "draw" ELSE "panicked"
           /\ chan' = RestOfChannel
    /\ UNCHANGED <<file, active_menu_item, raw_mode>>

\* Any other key: the `_ => {}` arm.
KeyOther ==
    /\ Receive("other")
    /\ ctl' = "draw"
    /\ chan' = RestOfChannel
    /\ UNCHANGED <<file, active_menu_item, group_list_state, raw_mode>>

\* Variant of the Tick arm that puts the selection back on the first row.
TickResetsSelection ==
    /\ Receive("Tick")
    /\ ctl' = "draw"
    /\ chan' = RestOfChannel
    /\ group_list_state' = <<0>>
    /\ UNCHANGED <<file, active_menu_item, raw_mode>>

\* Event::Tick => {}
Tick ==
    /\ Receive("Tick")
    /\ ctl' = "draw"
    /\ chan' = RestOfChannel
    /\ UNCHANGED <<file, active_menu_item, group_list_state, raw_mode>>

\* main has returned or finished unwinding: the process exits and takes the
\* event source thread, with its last_tick, along.
ProcessExit ==
    /\ ctl \in Terminated /\ prod # "gone"
    /\ prod' = "gone"
    /\ due' = FALSE
    /\ UNCHANGED <<chan, pushed>>
    /\ prodFrame

Producer ==
    \/ DeadlinePasses \/ PollKey \/ PollNonKey \/ PollTimeout \/ PollFail
    \/ SendTick \/ NoTick

Controller ==
    \/ EnableRawMode \/ EnableRawModeFail
    \/ Setup \/ SetupFail \/ Draw \/ DrawFail \/ RecvErr
    \/ KeyQ \/ KeyH \/ KeyG \/ KeyE \/ KeyA \/ KeyD \/ KeyDown \/ KeyUp \/ KeyOther \/ Tick

Next == Producer \/ Controller \/ ProcessExit

Spec == Init /\ [][Next]_vars

\* The same transitions with the controller scheduled fairly: a controller
\* step that stays possible is eventually taken (draw returns, recv returns
\* once the channel holds an event).
FairSpec == Spec /\ WF_vars(Controller)

\* Sessions for the channel properties: the store file starts as the empty
\* array and the build wraps, so the controller can end by q, by an error
\* return and by a panic; the event source and the controller are as in
\* FairSpec.
ChannelInit ==
    /\ Init
    /\ file = OkFile(<< >>)
    /\ build = "release"

ChannelSpec == ChannelInit /\ [][Next]_vars /\ WF_vars(Controller)

----------------------------------------------------------------------------
\* Shorthands for the properties.

StoreOk == file.status = "ok"
StoreLen == Len(file.groups)
HasSelection == group_list_state # << >>
Selected == group_list_state[1]
InRange(i, n) == 0 <= i /\ i < n

\* This step is the controller receiving and handling event ev.
Handles(ev) == rcvd' = rcvd + 1 /\ last' = ev

----------------------------------------------------------------------------
\* C1: whenever the active tab is Groups and the store is non-empty, the
\* selection is Some(i) with 0 <= i < len(store).
C1_SelectionInRange ==
    (active_menu_item = "Groups" /\ StoreOk /\ StoreLen > 0)
        => (HasSelection /\ InRange(Selected, StoreLen))

\* C2: with L >= 1 records and the selection i in [0, L-1], Down selects
\* (i+1) mod L and Up selects (i-1+L) mod L, so the selection stays in range.
C2_UpDownWrap ==
    [][(StoreOk /\ StoreLen >= 1 /\ HasSelection /\ InRange(Selected, StoreLen))
         => /\ Handles("Down")
                => (ctl' = "draw"
                    /\ group_list_state' = <<(Selected + 1) % StoreLen>>)
            /\ Handles("Up")
                => (ctl' = "draw"
                    /\ group_list_state' = <<(Selected - 1 + StoreLen) % StoreLen>>)]_vars

\* C2 witness: the first event was an Up that wrapped from row 0 to the last
\* of at least two rows.
C2_Witness ==
    /\ rcvd = 1 /\ last = "Up" /\ ctl = "draw"
    /\ StoreOk /\ StoreLen >= 2 /\ group_list_state = <<StoreLen - 1>>

\* C3: a d event on a store of exactly one record leaves the store and the
\* selection unchanged.
C3_SingletonFloor ==
    [][(Handles("d") /\ StoreOk /\ StoreLen = 1)
         => (file' = file /\ group_list_state' = group_list_state /\ ctl' = "draw")]_vars

\* C3 witness: a d has just been handled and the store holds its one record.
C3_Witness ==
    /\ last = "d" /\ ctl = "draw" /\ rcvd = 1
    /\ file = OkFile(InitGroups(1)) /\ group_list_state = <<0>>

\* C4 as stated: a store that holds at least one record holds at least one
\* record after every step, so a session that starts non-empty never loses
\* its last record.
C4_NeverEmpty ==
    [][(StoreOk /\ StoreLen >= 1) => (StoreOk' /\ StoreLen' >= 1)]_vars

\* C4 amended: a store that holds at least one record holds at least one
\* record after every step, except that a write that fails part-way leaves
\* the file unparsable and panics the controller; no step ever stores the
\* empty record sequence, so d never brings the store to length zero.
C4_FloorHolds ==
    [][(StoreOk /\ StoreLen >= 1)
         => \/ StoreOk' /\ StoreLen' >= 1
            \/ file' = UnparsableFile /\ ctl' = "panicked"
                  /\ (Handles("a") \/ Handles("d"))]_vars

\* C4 witness: two d events on a store of two records; the first removed a
\* record, the second met the floor.
C4_Witness ==
    /\ rcvd = 2 /\ last = "d" /\ ctl = "draw"
    /\ file = OkFile(<<InitGroups(2)[2]>>)

\* C5: a successful deletion (the d command returns Ok) at selected index i
\* of L >= 2 records (0 <= i < L) moves the selection to i-1, or leaves it at
\* 0 when i = 0, and the new selection is a valid index of the shrunken store.
C5_DeleteShift ==
    [][(Handles("d") /\ ctl' = "draw" /\ StoreOk /\ StoreLen >= 2
            /\ HasSelection /\ InRange(Selected, StoreLen))
         => /\ StoreOk' /\ StoreLen' = StoreLen - 1
            /\ group_list_state' = <<IF Selected = 0 THEN 0 ELSE Selected - 1>>
            /\ InRange(Selected', StoreLen')]_vars

\* C5 witness: add, Down, d on a store of two records removed the record at
\* index 1 of three and stepped the selection back to 0.
C5_Witness ==
    /\ rcvd = 3 /\ last = "d" /\ ctl = "draw"
    /\ StoreOk /\ StoreLen = 2
    /\ file.groups[1] = InitGroups(2)[1] /\ file.groups[2] \in RandomGroups
    /\ group_list_state = <<0>>

\* C6 as stated: every a event on a readable store appends one record at the
\* end, leaves the records before it, the active tab and the selection
\* unchanged.
C6_AppendAlways ==
    [][(Handles("a") /\ StoreOk)
         => /\ StoreOk' /\ StoreLen' = StoreLen + 1
            /\ SubSeq(file'.groups, 1, StoreLen) = file.groups
            /\ active_menu_item' = active_menu_item
            /\ group_list_state' = group_list_state]_vars

\* C6 amended: an a event leaves the active tab and the selection unchanged;
\* when its read and its write of the store file succeed it appends one
\* generated record at the end and leaves the records before it unchanged;
\* otherwise the controller panics and no record is added: the file is as it
\* was, or is left unparsable by the failed write.
C6_AppendOnly ==
    [][Handles("a")
         => /\ active_menu_item' = active_menu_item
            /\ group_list_state' = group_list_state
            /\ ctl' \in {"draw", "panicked"}
            /\ ctl' = "draw"
                 => /\ StoreOk /\ StoreOk' /\ StoreLen' = StoreLen + 1
                    /\ SubSeq(file'.groups, 1, StoreLen) = file.groups
                    /\ file'.groups[StoreLen'] \in RandomGroups
            /\ ctl' = "panicked"
                 => (file' = file \/ (StoreOk /\ file' = UnparsableFile))]_vars

\* C6 witness: an a handled in the Groups tab with a moved selection grew a
\* store of two records to three.
C6_Witness ==
    /\ last = "a" /\ ctl = "draw" /\ active_menu_item = "Groups"
    /\ StoreOk /\ StoreLen = 3 /\ SubSeq(file.groups, 1, 2) = InitGroups(2)
    /\ group_list_state = <<1>>

\* C7: a Tick changes neither the store, the active tab, the selection nor
\* the terminal mode, never ends the session, and the re-render it triggers
\* never panics; so removing the ticks from an event sequence changes nothing.
C7_TickInert ==
    [][/\ Handles("Tick")
          => (ctl' = "draw"
              /\ UNCHANGED <<file, active_menu_item, group_list_state, raw_mode>>)
       /\ (ctl = "draw" /\ last = "Tick") => ctl' # "panicked"]_vars

\* C7 witness: a Tick was handled in the Groups tab with a moved selection
\* and the view was rendered again.
C7_Witness ==
    /\ last = "Tick" /\ ctl = "recv" /\ screen = "Groups"
    /\ StoreOk /\ group_list_state = <<1>>

\* C8: with an unreadable or unparsable store file the interactive loop never
\* starts: no event is received and no view is rendered.
C8_FatalLoad ==
    ~StoreOk => (rcvd = 0 /\ screen = "none")

\* C9: in every terminated state of the controller raw mode has been disabled.
C9_RawModeReleased ==
    ctl \in Terminated => raw_mode = FALSE

\* C10 as stated: every event pushed is received; after a clean quit nothing
\* more is received, so every pushed event must have been received by then.
C10_AllDelivered ==
    ctl = "done" => rcvd = pushed

\* C10 amended: while the controller runs the channel holds exactly the
\* events pushed and not yet received, oldest first (the k-th event received
\* is the k-th pushed, none lost, none twice); when the controller terminates
\* the events still queued are dropped; and no event waits forever in front
\* of a running controller: the controller keeps receiving, or again and
\* again the channel is empty or the controller has terminated.
C10_InOrderDelivery ==
    /\ [](/\ Len(chan) = IF Running THEN pushed - rcvd ELSE 0
          /\ \A i \in 1 .. Len(chan) : chan[i].n = rcvd + i)
    /\ \/ []<><<rcvd' = rcvd + 1>>_vars
       \/ []<>(chan = << >> \/ ctl \in Terminated)

\* C10 witness: two events wait in the channel after one was received.
C10_Witness ==
    /\ Len(chan) = 2 /\ rcvd >= 1 /\ ctl = "recv"

\* C11: once the tick interval has elapsed the event source pushes at most
\* one more Input before the Tick: an Input pushed when the deadline has
\* passed takes the thread to the deadline check with the deadline still
\* passed, and from there, while the controller is there to receive, the
\* only event it pushes is the Tick.
C11_TickAfterOneInput ==
    [][/\ (pushed' = pushed + 1 /\ chan'[Len(chan')].ev \in KeyCodes)
            => (prod = "poll" /\ prod' = "check" /\ (due => due'))
       /\ (Running /\ due /\ prod = "check" /\ (prod' # prod \/ pushed' # pushed))
            => (prod' = "poll" /\ ~due' /\ pushed' = pushed + 1
                /\ chan'[Len(chan')].ev = "Tick")]_vars

\* C11 witness: the deadline passed before the poll, one Input was pushed,
\* and the Tick followed it.
C11_Witness ==
    /\ pushed = 2 /\ rcvd = 0 /\ prod = "poll" /\ ~due
    /\ chan[1].ev \in KeyCodes /\ chan[2].ev = "Tick"

\* C12: a d event received while the active tab is Home or Editing leaves
\* the store and the selection unchanged.
C12_DeleteOnlyInGroups ==
    [][(Handles("d") /\ active_menu_item \in {"Home", "Editing"})
         => UNCHANGED <<file, group_list_state>>]_vars

\* C13: an Up or Down event received while the active tab is Home or Editing
\* leaves the selection unchanged (stated for a readable, non-empty store,
\* where the effect of Up and Down is defined).
C13_MoveOnlyInGroups ==
    [][((Handles("Up") \/ Handles("Down")) /\ active_menu_item \in {"Home", "Editing"}
            /\ StoreOk /\ StoreLen >= 1)
         => UNCHANGED group_list_state]_vars

\* C14: while the store is empty the selection is None, Up, Down and d change
\* neither the store nor the selection and do not end the session, and
\* rendering the Groups tab does not crash.
C14_EmptyStoreHardened ==
    [][(StoreOk /\ StoreLen = 0)
         => /\ group_list_state = << >>
            /\ (Handles("Up") \/ Handles("Down") \/ Handles("d"))
                 => (ctl' = "draw" /\ UNCHANGED <<file, group_list_state>>)
            /\ (ctl = "draw" /\ active_menu_item = "Groups")
                 => ctl' # "panicked"]_vars

\* C15: an a or d command that meets an unreadable or unparsable store is
\* abandoned: tab and selection stay as they were and the loop continues.
C15_StoreErrorRecovered ==
    [][((Handles("a") \/ Handles("d")) /\ ~StoreOk)
         => (ctl' = "draw" /\ UNCHANGED <<active_menu_item, group_list_state>>)]_vars

\* C16: a render, in any tab, leaves the store, the active tab and the
\* selected row as they were.
C16_RenderInert ==
    [][ctl = "draw" => UNCHANGED <<file, active_menu_item, group_list_state>>]_vars

\* C16 witness: the Groups view was rendered with the selection on the
\* second of two rows.
C16_Witness ==
    /\ ctl = "recv" /\ screen = "Groups" /\ active_menu_item = "Groups"
    /\ file = OkFile(InitGroups(2)) /\ group_list_state = <<1>>

\* C17 as stated: every q event disables raw mode and stops the loop with a
\* success result.
C17_QuitClean ==
    [][Handles("q") => (ctl' = "done" /\ ~raw_mode')]_vars

\* C17 amended: a q event in any tab stops the loop, changing neither store,
\* tab nor selection: with success and raw mode disabled when the three
\* terminal calls of the q arm succeed, else with the error of the call that
\* failed (raw mode stays on only when disable_raw_mode itself failed); once
\* the controller has terminated no event is received and nothing the
\* controller owns changes any more.
C17_QuitStops ==
    [][/\ Handles("q")
            => /\ ctl' \in {"done", "err"}
               /\ ctl' = "done" => ~raw_mode'
               /\ raw_mode' => raw_mode
               /\ UNCHANGED <<file, active_menu_item, group_list_state>>
       /\ ctl \in Terminated
            => UNCHANGED <<ctl, file, active_menu_item, group_list_state,
                           raw_mode, rcvd, chan, pushed, last, screen>>]_vars

\* C17 witness: q was handled in the Groups tab, raw mode is off, an event
\* pushed behind the q was never received, and the event source thread has
\* died on a send that found the receiver gone.
C17_Witness ==
    /\ ctl = "done" /\ last = "q" /\ ~raw_mode
    /\ active_menu_item = "Groups" /\ pushed > rcvd /\ prod = "dead"

\* C18: a step of the event source thread changes neither the store, the
\* active tab nor the selection (nor anything else of the controller); at
\* most it appends one event to the channel.
C18_ProducerOnlySends ==
    [][(prod \in {"poll", "check"} /\ (prod' # prod \/ due' # due \/ pushed' # pushed))
         => /\ UNCHANGED <<file, active_menu_item, group_list_state, raw_mode,
                           ctl, screen, last, rcvd>>
            /\ \/ chan' = chan /\ pushed' = pushed
               \/ /\ pushed' = pushed + 1
                  /\ Len(chan') = Len(chan) + 1
                  /\ SubSeq(chan', 1, Len(chan)) = chan]_vars

\* C18 witness: the event source pushed an event after the controller had
\* moved the selection in the Groups tab.
C18_Witness ==
    /\ pushed = 3 /\ rcvd = 2 /\ Len(chan) = 1 /\ prod = "check"
    /\ active_menu_item = "Groups" /\ group_list_state = <<1>>

\* C19: a successful d (the command returns Ok) on L >= 2 records with the
\* selection i in [0, L-1] leaves L-1 records: those before index i
\* unchanged, those after it moved up by one.
C19_RemovesSelected ==
    [][(Handles("d") /\ ctl' = "draw" /\ StoreOk /\ StoreLen >= 2
            /\ HasSelection /\ InRange(Selected, StoreLen))
         => /\ StoreOk' /\ StoreLen' = StoreLen - 1
            /\ \A k \in 1 .. StoreLen :
                 \/ k = Selected + 1
                 \/ k < Selected + 1 /\ file'.groups[k] = file.groups[k]
                 \/ k > Selected + 1 /\ file'.groups[k - 1] = file.groups[k]]_vars

\* C19 witness: add, Up, d on a store of two records removed the last of
\* three records and kept the first two.
C19_Witness ==
    /\ rcvd = 3 /\ last = "d" /\ ctl = "draw"
    /\ file = OkFile(InitGroups(2)) /\ group_list_state = <<1>>

\* C20: from any tab h selects Home, g Groups and e Editing, each leaving
\* store and selection unchanged; any other key changes nothing.
C20_TabKeys ==
    [][/\ Handles("h") => active_menu_item' = "Home"
       /\ Handles("g") => active_menu_item' = "Groups"
       /\ Handles("e") => active_menu_item' = "Editing"
       /\ (Handles("h") \/ Handles("g") \/ Handles("e"))
            => (ctl' = "draw" /\ UNCHANGED <<file, group_list_state, raw_mode>>)
       /\ Handles("other")
            => (ctl' = "draw"
                /\ UNCHANGED <<file, active_menu_item, group_list_state, raw_mode>>)]_vars

\* C20 witness: e was handled while the Groups view was on screen and the
\* active tab is now Editing.
C20_Witness ==
    /\ last = "e" /\ ctl = "draw" /\ screen = "Groups"
    /\ active_menu_item = "Editing"

====
